---- MODULE Spec2Model ----
(***************************************************************************)
(* A model of the two Gmail triage scripts of tidyup:                      *)
(*   scripts/create_filter.py   (the "filter" script)                      *)
(*   scripts/delete_messages.py (the "delete" script)                      *)
(*                                                                         *)
(* A Python str is modelled as a sequence of one-character strings, so     *)
(* that regular-expression search, substring tests and joins are computed  *)
(* character by character.                                                 *)
(***************************************************************************)
EXTENDS Integers, Sequences, FiniteSets, TLC

VARIABLES
    script,          \* which program runs: "filter" or "delete"
    pc,              \* position of the run in main()
    tokenFile,       \* token.json: "absent", "old" (left by an earlier run), "new" (written by this run)
    creds,           \* the creds object of main()
    mailbox,         \* provider state: the pages of the mailbox, each a list of messages (header lists)
    filters,         \* provider state: the response of users.settings.filters.list
    messages,        \* main(): the result of .list(...).execute().get("messages")
    cursor,          \* index of the loop in progress (messages_list, senders_list or senders)
    unique_senders,  \* get_unique_senders: the set being built
    senders_list,    \* mark_senders: its argument, in the order the for loop visits it
    marked_senders,  \* mark_senders: the list being built
    terminal,        \* the lines read by input() in the mark_senders call in progress
    senders,         \* main(): the list mark_senders returned
    emails,          \* extract_emails: the list being built / main(): its result
    unfiltered_emails, \* main(): the result of identify_unfiltered_emails
    msg_ids,         \* get_marked_senders_msg_id: unique_senders_msgs_id
    calls,           \* every request sent to the mail provider and its outcome, in order
    iterations       \* passes of the while loop of create_filter.main begun so far

vars == <<script, pc, tokenFile, creds, mailbox, filters, messages, cursor,
          unique_senders, senders_list, marked_senders, terminal, senders,
          emails, unfiltered_emails, msg_ids, calls, iterations>>

----------------------------------------------------------------------------
(* Bounds of the model *)

\* longest string drawn as an input of a pure function
MaxLen == 3
\* most elements of a list drawn as an input of a pure function
MaxItems == 2
\* most lines typed at the terminal during one mark_senders call
MaxLines == 4
\* most pages of a mailbox
MaxPages == 2
\* most messages of a mailbox, over all its pages
MaxMessages == 2
\* most passes of the while loop of create_filter.main that are followed
MaxIter == 2

----------------------------------------------------------------------------
(* Strings *)

\* characters of the sender strings drawn for extract_emails
SenderAlphabet == {"a", "<", ">"}

\* characters of the addresses and `from` criteria drawn for identify_unfiltered_emails
AddrAlphabet == {"a", "b"}

\* all strings over alphabet of length at most n
Strings(alphabet, n) == UNION {[1..k -> alphabet] : k \in 0..n}

RECURSIVE ListsWithin(_, _, _)
\* all lists of at most k strings over alphabet, each of length at most MaxLen,
\* that hold at most n characters in total
ListsWithin(alphabet, k, n) ==
    IF k = 0 THEN {<<>>}
    ELSE {<<>>} \cup
         UNION {{<<s>> \o rest : rest \in ListsWithin(alphabet, k - 1, n - Len(s))} :
                s \in Strings(alphabet, IF n < MaxLen THEN n ELSE MaxLen)}

\* Python: a in b, for two str
IsSubstring(a, b) ==
    \E i \in 0..(Len(b) - Len(a)) : SubSeq(b, i + 1, i + Len(a)) = a

RECURSIVE Join(_, _)
\* Python: sep.join(list)
Join(sep, list) ==
    IF list = <<>> THEN <<>>
    ELSE IF Len(list) = 1 THEN list[1]
    ELSE list[1] \o sep \o Join(sep, Tail(list))

\* the separator " OR "
OrSep == <<" ", "O", "R", " ">>

\* str.lower() of one character
LowerChar(c) ==
    CASE c = "Y" -> "y"
      [] c = "N" -> "n"
      [] c = "E" -> "e"
      [] OTHER -> c

\* Lower with the call of .lower() forgotten
LowerForgotten(line) == line

\* Python: line.lower()
Lower(line) == [i \in 1..Len(line) |-> LowerChar(line[i])]

----------------------------------------------------------------------------
(* extract_emails *)

\* LazyGroupEnd for a greedy group, (.*)> : the last `>` from j on
GreedyGroupEnd(text, j) ==
    IF \E k \in j..Len(text) : text[k] = ">"
    THEN CHOOSE k \in j..Len(text) :
            text[k] = ">" /\ \A m \in (k + 1)..Len(text) : text[m] # ">"
    ELSE 0

RECURSIVE LazyGroupEnd(_, _)
\* the lazy  (.*?)>  of the pattern, tried from position j: `>` is tried
\* first, and only when it fails `.` takes one more character (any but a
\* newline). The position of the closing `>`, or 0 when there is no match.
LazyGroupEnd(text, j) ==
    IF j > Len(text) THEN 0
    ELSE IF text[j] = ">" THEN j
    ELSE IF text[j] = "\n" THEN 0
    ELSE LazyGroupEnd(text, j + 1)

RECURSIVE SearchFrom(_, _)
\* re.search tries the pattern at each start position, left to right
SearchFrom(text, i) ==
    IF i > Len(text) THEN [matched |-> FALSE, group1 |-> <<>>]
    ELSE IF text[i] = "<" /\ LazyGroupEnd(text, i + 1) # 0
         THEN [matched |-> TRUE,
               group1 |-> SubSeq(text, i + 1, LazyGroupEnd(text, i + 1) - 1)]
         ELSE SearchFrom(text, i + 1)

\* re.search(r"<(.*?)>", text)
re_search(text) == SearchFrom(text, 1)

\* the body of the for loop of extract_emails: emails after text is visited
extract_body(emailsSoFar, text) ==
    IF re_search(text).matched
    THEN Append(emailsSoFar, re_search(text).group1)
    ELSE emailsSoFar

RECURSIVE extract_emails(_)
\* extract_emails(senders): the for loop over senders, from an empty list
extract_emails(list) ==
    IF list = <<>> THEN <<>>
    ELSE extract_body(extract_emails(SubSeq(list, 1, Len(list) - 1)), list[Len(list)])

----------------------------------------------------------------------------
(* mark_senders *)

\* the test of line 63: mark in ("y", "n"), mark being the lowered line
IsAnswer(mark) == mark \in {<<"y">>, <<"n">>}

\* lines 67-68: marked_senders once the answer mark is given for item
mark_body(marked, item, mark) ==
    IF mark = <<"y">> THEN Append(marked, item) ELSE marked

\* the lines an operator may type at a prompt
Lines == {<<"y">>, <<"Y">>, <<"n">>, <<"N">>, <<"x">>, <<>>, <<"y", "E", "s">>}

----------------------------------------------------------------------------
(* get_unique_senders and get_marked_senders_msg_id *)

\* senders_body without the test of the header name of line 41
senders_body_any(unique, headers) ==
    unique \cup {headers[i].value : i \in 1..Len(headers)}

\* lines 40-43: unique_senders after the headers of one message are visited
senders_body(unique, headers) ==
    unique \cup {headers[i].value : i \in {j \in 1..Len(headers) : headers[j].name = "From"}}

RECURSIVE ids_body(_, _, _, _)
\* delete_messages.py lines 97-102: unique_senders_msgs_id after the headers
\* of the message id are visited; one append for each `From` header whose
\* value is in the list of marked senders
ids_body(ids, id, headers, marked) ==
    IF headers = <<>> THEN ids
    ELSE ids_body(IF Head(headers).name = "From"
                     /\ \E k \in 1..Len(marked) : marked[k] = Head(headers).value
                  THEN Append(ids, id) ELSE ids,
                  id, Tail(headers), marked)

----------------------------------------------------------------------------
(* identify_unfiltered_emails *)

RECURSIVE inner_loop(_, _, _)
\* lines 109-114, the for/else over filters_list["filter"] for one email,
\* from filter k on: "break" (line 112), "else" (line 114), or "KeyError"
\* when filter["criteria"]["from"] is read from criteria that hold no `from`
inner_loop(filterSeq, email, k) ==
    IF k > Len(filterSeq) THEN "else"
    ELSE IF ~filterSeq[k].criteria.has_from THEN "KeyError"
    ELSE IF IsSubstring(email, filterSeq[k].criteria.from) THEN "break"
    ELSE inner_loop(filterSeq, email, k + 1)

RECURSIVE outer_loop(_, _, _, _)
\* lines 108-114, the for loop over email_list from email i on
outer_loop(filterSeq, email_list, i, unfiltered) ==
    IF i > Len(email_list) THEN [raised |-> "", list |-> unfiltered]
    ELSE IF inner_loop(filterSeq, email_list[i], 1) = "KeyError"
         THEN [raised |-> "KeyError", list |-> unfiltered]
    ELSE outer_loop(filterSeq, email_list, i + 1,
                    IF inner_loop(filterSeq, email_list[i], 1) = "else"
                    THEN Append(unfiltered, email_list[i]) ELSE unfiltered)

\* lines 105-118: the list unfiltered_emails, or the exception raised
unfiltered_list(filters_list, email_list) ==
    IF filters_list.has_filter
    THEN outer_loop(filters_list.filter, email_list, 1, <<>>)
    ELSE [raised |-> "", list |-> email_list]

\* identify_unfiltered_emails, given the response of the filters.list call
identify_unfiltered_emails(filters_list, email_list) ==
    [raised |-> unfiltered_list(filters_list, email_list).raised,
     value  |-> IF unfiltered_list(filters_list, email_list).raised = ""
                THEN Join(OrSep, unfiltered_list(filters_list, email_list).list)
                ELSE <<>>]

----------------------------------------------------------------------------
(* The mail provider and the local files *)

\* maxResults of the list request of create_filter.py
MaxResults == 250

Alice == <<"A", " ", "<", "a", ">">>
Bob == <<"B", " ", "<", "b", ">">>

\* the messages a mailbox may hold, each the header list of its payload:
\* one from Alice, one from Bob, one with no `From` header
MessagePool ==
    { <<[name |-> "To", value |-> <<"m">>], [name |-> "From", value |-> Alice]>>,
      <<[name |-> "From", value |-> Bob]>>,
      <<[name |-> "To", value |-> <<"m">>]>> }

\* the pages of n messages at most, none empty
Pages(n) == UNION {[1..k -> MessagePool] : k \in 1..n}

RECURSIVE MailboxesWithin(_, _)
\* the mailboxes of at most p pages that hold at most n messages in total
MailboxesWithin(p, n) ==
    IF p = 0 \/ n = 0 THEN {<<>>}
    ELSE {<<>>} \cup
         UNION {{<<page>> \o rest : rest \in MailboxesWithin(p - 1, n - Len(page))} :
                page \in Pages(n)}

Mailboxes == MailboxesWithin(MaxPages, MaxMessages)

\* a filter resource with a `from` criterion, and one with another criterion only
FilterFrom(from) == [criteria |-> [has_from |-> TRUE, from |-> from]]
FilterOther == [criteria |-> [has_from |-> FALSE, from |-> <<>>]]

\* responses of filters.list: no "filter" key, a filter on Alice's address,
\* a filter that matches on something other than the sender
FilterResponses ==
    { [has_filter |-> FALSE, filter |-> <<>>],
      [has_filter |-> TRUE, filter |-> <<FilterFrom(<<"a">>)>>],
      [has_filter |-> TRUE, filter |-> <<FilterOther>>] }

\* creds = None
NoCreds == [loaded |-> FALSE, valid |-> FALSE, expired |-> FALSE, refresh_token |-> FALSE]

\* what Credentials.from_authorized_user_file may return: valid credentials
\* are not expired
LoadedCreds ==
    {c \in [loaded : {TRUE}, valid : BOOLEAN, expired : BOOLEAN, refresh_token : BOOLEAN] :
        c.valid => ~c.expired}

\* credentials after a refresh or a consent flow that succeeded
FreshCreds == [loaded |-> TRUE, valid |-> TRUE, expired |-> FALSE, refresh_token |-> TRUE]

\* exceptions no handler of main() catches: the run dies with a traceback
UncaughtErrors ==
    {"ValueError", "RefreshError", "ConsentError", "TypeError", "IndexError", "KeyError"}

\* the orders in which a for loop may visit the set S
Orders(S) ==
    {f \in [1..Cardinality(S) -> S] : \A i, j \in 1..Cardinality(S) : f[i] = f[j] => i = j}

\* the message the provider holds under id
Message(id) == mailbox[id[1]][id[2]]

\* the "messages" value of the list response for the first page: the
\* references of its messages; itemToken is the nextPageToken entry that the
\* last reference carries ("" when it carries none)
FirstPageRefs(itemToken) ==
    [j \in 1..Len(mailbox[1]) |->
        [id |-> <<1, j>>,
         nextPageToken |-> IF j = Len(mailbox[1]) THEN itemToken ELSE ""]]

\* the terminal record with no line read yet
ClearedTerminal(term) == [recorded |-> term.recorded, lines |-> <<>>]

----------------------------------------------------------------------------
(* main(): the credential step, lines 124-139 (delete: 127-142) *)

Init ==
    /\ script \in {"filter", "delete"}
    /\ pc = "start"
    /\ tokenFile \in {"absent", "old"}
    /\ creds = NoCreds
    /\ mailbox \in Mailboxes
    /\ filters \in IF script = "filter" THEN FilterResponses
                   ELSE {[has_filter |-> FALSE, filter |-> <<>>]}
    /\ messages = [present |-> FALSE, list |-> <<>>]
    /\ cursor = 0
    /\ unique_senders = {}
    /\ senders_list = <<>>
    /\ marked_senders = <<>>
    /\ terminal = [recorded |-> FALSE, lines |-> <<>>]
    /\ senders = <<>>
    /\ emails = <<>>
    /\ unfiltered_emails = <<>>
    /\ msg_ids = <<>>
    /\ calls = <<>>
    /\ iterations = 0

\* lines 128-129: token.json is read when it exists
LoadToken ==
    /\ pc = "start"
    /\ IF tokenFile = "absent" THEN creds' = NoCreds ELSE creds' \in LoadedCreds
    /\ pc' = "check"
    /\ UNCHANGED <<script, tokenFile, mailbox, filters, messages, cursor, unique_senders,
                   senders_list, marked_senders, terminal, senders, emails,
                   unfiltered_emails, msg_ids, calls, iterations>>

\* line 129: from_authorized_user_file raises on a file it cannot read
LoadTokenFails ==
    /\ pc = "start"
    /\ tokenFile # "absent"
    /\ pc' = "ValueError"
    /\ UNCHANGED <<script, tokenFile, creds, mailbox, filters, messages, cursor,
                   unique_senders, senders_list, marked_senders, terminal, senders,
                   emails, unfiltered_emails, msg_ids, calls, iterations>>

\* credential_branch without the test of creds.expired of line 132
credential_branch_no_expiry(c) ==
    IF ~c.loaded \/ ~c.valid
    THEN IF c.loaded /\ c.refresh_token THEN "refresh" ELSE "consent"
    ELSE "build"

\* where lines 131-136 send the run: past the block, to refresh, or to consent
credential_branch(c) ==
    IF ~c.loaded \/ ~c.valid
    THEN IF c.loaded /\ c.expired /\ c.refresh_token THEN "refresh" ELSE "consent"
    ELSE "build"

\* lines 131-132, 134: the two tests on creds
CheckCreds ==
    /\ pc = "check"
    /\ pc' = credential_branch(creds)
    /\ UNCHANGED <<script, tokenFile, creds, mailbox, filters, messages, cursor,
                   unique_senders, senders_list, marked_senders, terminal, senders,
                   emails, unfiltered_emails, msg_ids, calls, iterations>>

\* line 133: creds.refresh(Request()) succeeds
Refresh ==
    /\ pc = "refresh"
    /\ creds' = FreshCreds
    /\ pc' = "save"
    /\ UNCHANGED <<script, tokenFile, mailbox, filters, messages, cursor, unique_senders,
                   senders_list, marked_senders, terminal, senders, emails,
                   unfiltered_emails, msg_ids, calls, iterations>>

\* line 133: creds.refresh(Request()) raises
RefreshFails ==
    /\ pc = "refresh"
    /\ pc' = "RefreshError"
    /\ UNCHANGED <<script, tokenFile, creds, mailbox, filters, messages, cursor,
                   unique_senders, senders_list, marked_senders, terminal, senders,
                   emails, unfiltered_emails, msg_ids, calls, iterations>>

\* lines 135-136: the consent flow completes
Consent ==
    /\ pc = "consent"
    /\ creds' = FreshCreds
    /\ pc' = "save"
    /\ UNCHANGED <<script, tokenFile, mailbox, filters, messages, cursor, unique_senders,
                   senders_list, marked_senders, terminal, senders, emails,
                   unfiltered_emails, msg_ids, calls, iterations>>

\* lines 135-136: credentials.json is missing, no port binds, or the operator aborts
ConsentFails ==
    /\ pc = "consent"
    /\ pc' = "ConsentError"
    /\ UNCHANGED <<script, tokenFile, creds, mailbox, filters, messages, cursor,
                   unique_senders, senders_list, marked_senders, terminal, senders,
                   emails, unfiltered_emails, msg_ids, calls, iterations>>

\* what line 138-139 leave in token.json
saved_token(file) == "new"

\* lines 138-139: token.json is overwritten
SaveToken ==
    /\ pc = "save"
    /\ tokenFile' = saved_token(tokenFile)
    /\ pc' = "build"
    /\ UNCHANGED <<script, creds, mailbox, filters, messages, cursor, unique_senders,
                   senders_list, marked_senders, terminal, senders, emails,
                   unfiltered_emails, msg_ids, calls, iterations>>

----------------------------------------------------------------------------
(* main(): the provider calls, lines 141-195 (delete: 144-162) *)

\* the list request of each script: create_filter.py lines 147-151 pass
\* maxResults=250 and pageToken=page_token, which is None there;
\* delete_messages.py line 149 passes neither (maxResults 0: not passed)
list_request(which) ==
    [api |-> "messages.list",
     maxResults |-> IF which = "filter" THEN MaxResults ELSE 0,
     pageToken |-> ""]

\* the get request of lines 34-39 (delete: also 90-95)
get_request(id) == [api |-> "messages.get", id |-> id, format |-> "full"]

\* the request of line 103
filters_list_request == [api |-> "filters.list"]

\* filter_content with the two label lists exchanged
filter_content_swapped(unfiltered) ==
    [criteria |-> [from |-> unfiltered],
     action |-> [addLabelIds |-> <<"INBOX">>, removeLabelIds |-> <<"TRASH">>]]

\* lines 171-177: the body of the filter that is created
filter_content(unfiltered) ==
    [criteria |-> [from |-> unfiltered],
     action |-> [addLabelIds |-> <<"TRASH">>, removeLabelIds |-> <<"INBOX">>]]

\* the request of lines 179-185
create_request(unfiltered) == [api |-> "filters.create", body |-> filter_content(unfiltered)]

\* an entry of calls: a request sent, and the exception its execute() raised
\* ("" when it returned)
Call(request, raised) == [request |-> request, raised |-> raised]

\* on_http_error for a handler that sends the request again
on_http_error_retry(at) == at

\* where a provider call that raises HttpError at position `at` sends the
\* run: to the handler of line 194 (delete: 161)
on_http_error(at) == "except"

\* lines 147-153 (delete: 148-150): the list call returns; an empty mailbox
\* comes back without a "messages" key, or with an empty list
ListMessages ==
    /\ pc = "build"
    /\ calls' = Append(calls, Call(list_request(script), ""))
    /\ IF mailbox = <<>>
       THEN messages' \in {[present |-> FALSE, list |-> <<>>], [present |-> TRUE, list |-> <<>>]}
       ELSE \E itemToken \in {"", "next"} :
               messages' = [present |-> TRUE, list |-> FirstPageRefs(itemToken)]
    /\ pc' = "senders"
    /\ cursor' = 1
    /\ unique_senders' = {}
    /\ iterations' = IF script = "filter" THEN 1 ELSE 0
    /\ UNCHANGED <<script, tokenFile, creds, mailbox, filters, senders_list,
                   marked_senders, terminal, senders, emails, unfiltered_emails, msg_ids>>

\* the list call raises HttpError
ListMessagesFails ==
    /\ pc = "build"
    /\ calls' = Append(calls, Call(list_request(script), "HttpError"))
    /\ pc' = on_http_error(pc)
    /\ UNCHANGED <<script, tokenFile, creds, mailbox, filters, messages, cursor,
                   unique_senders, senders_list, marked_senders, terminal, senders,
                   emails, unfiltered_emails, msg_ids, iterations>>

\* get_unique_senders line 33: iterating messages_list when it is None
IterateNone ==
    /\ pc = "senders"
    /\ ~messages.present
    /\ pc' = "TypeError"
    /\ UNCHANGED <<script, tokenFile, creds, mailbox, filters, messages, cursor,
                   unique_senders, senders_list, marked_senders, terminal, senders,
                   emails, unfiltered_emails, msg_ids, calls, iterations>>

\* get_unique_senders lines 33-43: one message is fetched and its headers visited
GetSender ==
    /\ pc = "senders"
    /\ messages.present
    /\ cursor <= Len(messages.list)
    /\ calls' = Append(calls, Call(get_request(messages.list[cursor].id), ""))
    /\ unique_senders' = senders_body(unique_senders, Message(messages.list[cursor].id))
    /\ cursor' = cursor + 1
    /\ UNCHANGED <<script, pc, tokenFile, creds, mailbox, filters, messages, senders_list,
                   marked_senders, terminal, senders, emails, unfiltered_emails,
                   msg_ids, iterations>>

\* get_unique_senders lines 34-39: the get call raises HttpError
GetSenderFails ==
    /\ pc = "senders"
    /\ messages.present
    /\ cursor <= Len(messages.list)
    /\ calls' = Append(calls, Call(get_request(messages.list[cursor].id), "HttpError"))
    /\ pc' = on_http_error(pc)
    /\ UNCHANGED <<script, tokenFile, creds, mailbox, filters, messages, cursor,
                   unique_senders, senders_list, marked_senders, terminal, senders,
                   emails, unfiltered_emails, msg_ids, iterations>>

\* get_unique_senders line 45 and mark_senders lines 58-59: the set is
\* returned and mark_senders starts to visit it, in some order
StartMarking ==
    /\ pc = "senders"
    /\ messages.present
    /\ cursor > Len(messages.list)
    /\ senders_list' \in Orders(unique_senders)
    /\ marked_senders' = <<>>
    /\ terminal' = ClearedTerminal(terminal)
    /\ cursor' = 1
    /\ pc' = "mark"
    /\ UNCHANGED <<script, tokenFile, creds, mailbox, filters, messages, unique_senders,
                   senders, emails, unfiltered_emails, msg_ids, calls, iterations>>

\* mark_senders lines 61-68: one line is read at the prompt for the current
\* item. A line that is no answer leaves the while loop where it is; an
\* answer ends it, decides the item and moves the for loop on.
ReadLine ==
    /\ pc = "mark"
    /\ cursor <= Len(senders_list)
    /\ terminal.recorded => Len(terminal.lines) < MaxLines
    /\ \E line \in Lines :
          /\ terminal' = IF terminal.recorded
                         THEN [terminal EXCEPT !.lines = Append(@, line)]
                         ELSE terminal
          /\ IF IsAnswer(Lower(line))
             THEN /\ marked_senders' =
                        mark_body(marked_senders, senders_list[cursor], Lower(line))
                  /\ cursor' = cursor + 1
             ELSE UNCHANGED <<marked_senders, cursor>>
    /\ UNCHANGED <<script, pc, tokenFile, creds, mailbox, filters, messages,
                   unique_senders, senders_list, senders, emails, unfiltered_emails,
                   msg_ids, calls, iterations>>

\* mark_senders line 70: the marked list is returned to main(), which goes
\* on to extract_emails (create_filter.py line 157) or to
\* get_marked_senders_msg_id (delete_messages.py line 154)
MarkDone ==
    /\ pc = "mark"
    /\ cursor > Len(senders_list)
    /\ senders' = marked_senders
    /\ pc' = IF script = "filter" THEN "extract" ELSE "collect"
    /\ cursor' = 1
    /\ msg_ids' = <<>>
    /\ UNCHANGED <<script, tokenFile, creds, mailbox, filters, messages, unique_senders,
                   senders_list, marked_senders, terminal, emails, unfiltered_emails,
                   calls, iterations>>

\* create_filter.py line 157: emails = extract_emails(senders)
ExtractEmails ==
    /\ pc = "extract"
    /\ emails' = extract_emails(senders)
    /\ pc' = "identify"
    /\ UNCHANGED <<script, tokenFile, creds, mailbox, filters, messages, cursor,
                   unique_senders, senders_list, marked_senders, terminal, senders,
                   unfiltered_emails, msg_ids, calls, iterations>>

\* create_filter.py line 159: identify_unfiltered_emails lists the filters
\* and returns the joined string, or dies of the KeyError of line 111
Identify ==
    /\ pc = "identify"
    /\ calls' = Append(calls, Call(filters_list_request, ""))
    /\ IF identify_unfiltered_emails(filters, emails).raised = "KeyError"
       THEN /\ pc' = "KeyError"
            /\ UNCHANGED unfiltered_emails
       ELSE /\ pc' = "page_token"
            /\ unfiltered_emails' = identify_unfiltered_emails(filters, emails).value
    /\ UNCHANGED <<script, tokenFile, creds, mailbox, filters, messages, cursor,
                   unique_senders, senders_list, marked_senders, terminal, senders,
                   emails, msg_ids, iterations>>

\* line 103: the filters.list call raises HttpError
IdentifyFails ==
    /\ pc = "identify"
    /\ calls' = Append(calls, Call(filters_list_request, "HttpError"))
    /\ pc' = on_http_error(pc)
    /\ UNCHANGED <<script, tokenFile, creds, mailbox, filters, messages, cursor,
                   unique_senders, senders_list, marked_senders, terminal, senders,
                   emails, unfiltered_emails, msg_ids, iterations>>

\* create_filter.py lines 161-167: where the end of a pass of the while loop
\* sends the run. messages[-1] raises IndexError on an empty list; the token
\* is read off the last message reference, and an empty one ends the loop.
page_token_branch(list) ==
    IF list = <<>> THEN "IndexError"
    ELSE IF list[Len(list)].nextPageToken = "" THEN "create"
    ELSE "senders"

\* create_filter.py lines 161-167; another pass starts with the call of
\* get_unique_senders of line 156, on the same messages
PageToken ==
    /\ pc = "page_token"
    /\ page_token_branch(messages.list) = "senders" => iterations < MaxIter
    /\ pc' = page_token_branch(messages.list)
    /\ IF page_token_branch(messages.list) = "senders"
       THEN /\ iterations' = iterations + 1
            /\ cursor' = 1
            /\ unique_senders' = {}
       ELSE UNCHANGED <<iterations, cursor, unique_senders>>
    /\ UNCHANGED <<script, tokenFile, creds, mailbox, filters, messages, senders_list,
                   marked_senders, terminal, senders, emails, unfiltered_emails,
                   msg_ids, calls>>

\* create_filter.py lines 171-187: the filter is created and its id printed
CreateFilter ==
    /\ pc = "create"
    /\ calls' = Append(calls, Call(create_request(unfiltered_emails), ""))
    /\ pc' = "done"
    /\ UNCHANGED <<script, tokenFile, creds, mailbox, filters, messages, cursor,
                   unique_senders, senders_list, marked_senders, terminal, senders,
                   emails, unfiltered_emails, msg_ids, iterations>>

\* create_filter.py lines 179-185: the create call raises HttpError
CreateFilterFails ==
    /\ pc = "create"
    /\ calls' = Append(calls, Call(create_request(unfiltered_emails), "HttpError"))
    /\ pc' = on_http_error(pc)
    /\ UNCHANGED <<script, tokenFile, creds, mailbox, filters, messages, cursor,
                   unique_senders, senders_list, marked_senders, terminal, senders,
                   emails, unfiltered_emails, msg_ids, iterations>>

\* get_marked_senders_msg_id lines 89-102: one message is fetched again and
\* its id collected when its sender is marked
Collect ==
    /\ pc = "collect"
    /\ cursor <= Len(messages.list)
    /\ calls' = Append(calls, Call(get_request(messages.list[cursor].id), ""))
    /\ msg_ids' = ids_body(msg_ids, messages.list[cursor].id,
                           Message(messages.list[cursor].id), senders)
    /\ cursor' = cursor + 1
    /\ UNCHANGED <<script, pc, tokenFile, creds, mailbox, filters, messages,
                   unique_senders, senders_list, marked_senders, terminal, senders,
                   emails, unfiltered_emails, iterations>>

\* get_marked_senders_msg_id lines 90-95: the get call raises HttpError
CollectFails ==
    /\ pc = "collect"
    /\ cursor <= Len(messages.list)
    /\ calls' = Append(calls, Call(get_request(messages.list[cursor].id), "HttpError"))
    /\ pc' = on_http_error(pc)
    /\ UNCHANGED <<script, tokenFile, creds, mailbox, filters, messages, cursor,
                   unique_senders, senders_list, marked_senders, terminal, senders,
                   emails, unfiltered_emails, msg_ids, iterations>>

\* requests_for with the delete call the script stops short of: one
\* messages.delete request for each id collected
requests_for_delete(ids) ==
    [i \in 1..Len(ids) |-> Call([api |-> "messages.delete", id |-> ids[i]], "")]

\* delete_messages.py lines 154-159: the requests main() sends for the ids
\* that get_marked_senders_msg_id returned: it drops the list and sends none
requests_for(ids) == <<>>

\* delete_messages.py lines 104, 154-159: the id list is returned and
\* dropped, and token.json is removed
RemoveToken ==
    /\ pc = "collect"
    /\ cursor > Len(messages.list)
    /\ calls' = calls \o requests_for(msg_ids)
    /\ tokenFile' = "absent"
    /\ pc' = "done"
    /\ UNCHANGED <<script, creds, mailbox, filters, messages, cursor, unique_senders,
                   senders_list, marked_senders, terminal, senders, emails,
                   unfiltered_emails, msg_ids, iterations>>

\* lines 194-195 (delete: 161-162): the error is printed and main() returns
PrintError ==
    /\ pc = "except"
    /\ pc' = "failed"
    /\ UNCHANGED <<script, tokenFile, creds, mailbox, filters, messages, cursor,
                   unique_senders, senders_list, marked_senders, terminal, senders,
                   emails, unfiltered_emails, msg_ids, calls, iterations>>

Next ==
    \/ LoadToken \/ LoadTokenFails \/ CheckCreds
    \/ Refresh \/ RefreshFails \/ Consent \/ ConsentFails \/ SaveToken
    \/ ListMessages \/ ListMessagesFails
    \/ IterateNone \/ GetSender \/ GetSenderFails \/ StartMarking
    \/ ReadLine \/ MarkDone
    \/ ExtractEmails \/ Identify \/ IdentifyFails \/ PageToken
    \/ CreateFilter \/ CreateFilterFails
    \/ Collect \/ CollectFails \/ RemoveToken
    \/ PrintError

Spec == Init /\ [][Next]_vars

----------------------------------------------------------------------------
(* The functions on their own, on inputs drawn from bounded sets *)

\* the sender strings mark_senders is given in SpecMark
MarkPool == {Alice, Bob, <<"n">>}

\* every variable that a function under study neither reads nor writes
Idle ==
    /\ tokenFile = "old"
    /\ creds = FreshCreds
    /\ mailbox = <<>>
    /\ messages = [present |-> TRUE, list |-> <<>>]
    /\ unique_senders = {}
    /\ unfiltered_emails = <<>>
    /\ msg_ids = <<>>
    /\ calls = <<>>
    /\ iterations = 0

\* mark_senders is entered with any list of distinct senders, and the lines
\* typed are recorded
InitMark ==
    /\ Idle
    /\ script \in {"filter", "delete"}
    /\ pc = "mark"
    /\ senders_list \in UNION {Orders(S) : S \in {T \in SUBSET MarkPool : Cardinality(T) <= MaxItems}}
    /\ marked_senders = <<>>
    /\ terminal = [recorded |-> TRUE, lines |-> <<>>]
    /\ cursor = 1
    /\ filters = [has_filter |-> FALSE, filter |-> <<>>]
    /\ senders = <<>>
    /\ emails = <<>>

NextMark == ReadLine \/ MarkDone

SpecMark == InitMark /\ [][NextMark]_vars

\* extract_emails is entered with any list of sender strings
InitExtract ==
    /\ Idle
    /\ script \in {"filter", "delete"}
    /\ pc = "extract"
    /\ senders \in ListsWithin(SenderAlphabet, MaxItems, MaxLen + 1)
    /\ senders_list = <<>>
    /\ marked_senders = <<>>
    /\ terminal = [recorded |-> FALSE, lines |-> <<>>]
    /\ cursor = 1
    /\ filters = [has_filter |-> FALSE, filter |-> <<>>]
    /\ emails = <<>>

NextExtract == ExtractEmails

SpecExtract == InitExtract /\ [][NextExtract]_vars

\* the filter lists made of the `from` strings of list: a filter whose
\* criteria hold an empty `from`, or no `from` at all, for each empty string
FilterLists(list) ==
    {[i \in 1..Len(list) |->
        IF i \in other THEN FilterOther ELSE FilterFrom(list[i])] :
     other \in SUBSET {i \in 1..Len(list) : list[i] = <<>>}}

\* every response of filters.list within the bounds
AllFilterResponses ==
    {[has_filter |-> FALSE, filter |-> <<>>]} \cup
    {[has_filter |-> TRUE, filter |-> fl] :
        fl \in UNION {FilterLists(l) : l \in ListsWithin(AddrAlphabet, MaxItems, MaxLen)}}

\* identify_unfiltered_emails is entered with any address list, the provider
\* holding any filters
InitUnfiltered ==
    /\ Idle
    /\ script = "filter"
    /\ pc = "identify"
    /\ emails \in ListsWithin(AddrAlphabet, MaxItems, MaxLen)
    /\ filters \in AllFilterResponses
    /\ senders_list = <<>>
    /\ marked_senders = <<>>
    /\ terminal = [recorded |-> FALSE, lines |-> <<>>]
    /\ cursor = 1
    /\ senders = <<>>

NextUnfiltered == Identify \/ IdentifyFails

SpecUnfiltered == InitUnfiltered /\ [][NextUnfiltered]_vars

----------------------------------------------------------------------------
(* Properties *)

\* the lines that are an answer: y or n, in either case
YesLines == {<<"y">>, <<"Y">>}
NoLines == {<<"n">>, <<"N">>}
AnswerLines == YesLines \cup NoLines

\* the answers among the lines typed so far: the k-th one is the first
\* answer given at the prompt for the k-th sender
Answers == SelectSeq(terminal.lines, LAMBDA l : l \in AnswerLines)

\* the indices of a sequence, in order
Indices(seq) == [i \in 1..Len(seq) |-> i]

\* the elements of seq at the indices in keep, in the order of seq
Pick(seq, keep) ==
    [k \in 1..Len(SelectSeq(Indices(seq), LAMBDA i : i \in keep)) |->
        seq[SelectSeq(Indices(seq), LAMBDA i : i \in keep)[k]]]

\* the senders answered yes so far, in the order they were visited
AnsweredYes ==
    Pick(senders_list, {i \in 1..Len(Answers) : Answers[i] \in YesLines})

\* at every point of mark_senders the marked list is the senders answered
\* yes, the loop stands at the first sender with no answer yet, and the list
\* returned is the senders answered yes
C1_MarkedAreAnsweredYes ==
    /\ Len(Answers) <= Len(senders_list)
    /\ pc = "mark" =>
          /\ marked_senders = AnsweredYes
          /\ cursor = Len(Answers) + 1
    /\ pc # "mark" =>
          /\ Len(Answers) = Len(senders_list)
          /\ senders = AnsweredYes

\* one line read: a line that is no answer changes neither the sender at
\* the prompt nor the marked list; an answer moves to the next sender, and
\* appends the sender exactly when it is a yes
C1_LineStep ==
    (pc = "mark" /\ terminal'.lines # terminal.lines) =>
        IF terminal'.lines[Len(terminal'.lines)] \in AnswerLines
        THEN /\ cursor' = cursor + 1
             /\ marked_senders' =
                  IF terminal'.lines[Len(terminal'.lines)] \in YesLines
                  THEN Append(marked_senders, senders_list[cursor])
                  ELSE marked_senders
        ELSE /\ cursor' = cursor
             /\ marked_senders' = marked_senders

\* C1: in mark_senders a line other than y or n (in either case) never
\* advances to the next sender and never changes the marked list, the first
\* valid line decides the sender, and the list returned is exactly the
\* senders answered y, in the order of the input
C1_Marking == [](C1_MarkedAreAnsweredYes) /\ [][C1_LineStep]_vars

\* mark_senders returned after two senders were visited: the first was
\* refused with N after an invalid line, the second accepted with Y
C1_Witness ==
    /\ pc # "mark"
    /\ Len(senders_list) = 2
    /\ terminal.lines = <<<<"x">>, <<"N">>, <<"y", "E", "s">>, <<"Y">>>>
    /\ senders = <<senders_list[2]>>

\* whether text holds a `<` with a `>` somewhere after it
HasPair(text) ==
    \E i, j \in 1..Len(text) : i < j /\ text[i] = "<" /\ text[j] = ">"

\* the position of the first `<` of text
FirstOpen(text) ==
    CHOOSE i \in 1..Len(text) : text[i] = "<" /\ \A m \in 1..(i - 1) : text[m] # "<"

\* the position of the first `>` after position i
FirstCloseAfter(text, i) ==
    CHOOSE j \in (i + 1)..Len(text) :
        text[j] = ">" /\ \A m \in (i + 1)..(j - 1) : text[m] # ">"

\* the text strictly between the first `<` and the first `>` after it
Between(text) ==
    SubSeq(text, FirstOpen(text) + 1, FirstCloseAfter(text, FirstOpen(text)) - 1)

\* text holds one `<` and one `>`, in this order
ExactlyOnePair(text) ==
    /\ HasPair(text)
    /\ Cardinality({i \in 1..Len(text) : text[i] \in {"<", ">"}}) = 2

\* the positions of the senders that hold a bracket pair
WithPair == {i \in 1..Len(senders) : HasPair(senders[i])}

Range(seq) == {seq[i] : i \in 1..Len(seq)}

\* the values of the `From` headers of the first k messages listed
FromValues(k) ==
    {h.value : h \in {g \in UNION {Range(Message(messages.list[i].id)) : i \in 1..k} :
                        g.name = "From"}}

\* C4: get_unique_senders returns exactly the set of the `From` header
\* values of the messages listed (while it runs: of those visited so far), so
\* equal values give one sender and a message with no `From` header adds
\* nothing; mark_senders then visits each sender of the set once
C4_UniqueSenders ==
    /\ (pc = "senders" /\ messages.present) => unique_senders = FromValues(cursor - 1)
    /\ pc \in {"mark", "extract", "identify", "page_token", "create", "collect", "done"} =>
          /\ unique_senders = FromValues(Len(messages.list))
          /\ Range(senders_list) = unique_senders
          /\ Len(senders_list) = Cardinality(unique_senders)

\* two messages with the same `From` value, and a `To` header beside it,
\* were fetched and gave one sender
C4_Witness ==
    /\ pc = "mark"
    /\ Len(messages.list) = 2
    /\ \A i \in 1..2 : \E h \in Range(Message(messages.list[i].id)) :
          h.name = "From" /\ h.value = Alice
    /\ unique_senders = {Alice}

\* the positions of main() that belong to the credential step
CredentialPcs ==
    {"start", "check", "refresh", "consent", "save",
     "ValueError", "RefreshError", "ConsentError"}

\* during the credential step no request has been sent; refresh is under
\* way only for loaded, expired credentials with a refresh token, consent
\* only for absent or invalid credentials that cannot be refreshed
C5_CredentialState ==
    /\ pc \in CredentialPcs => calls = <<>>
    /\ pc = "refresh" =>
          creds.loaded /\ ~creds.valid /\ creds.expired /\ creds.refresh_token
    /\ pc = "consent" =>
          /\ ~creds.loaded \/ ~creds.valid
          /\ ~(creds.loaded /\ creds.expired /\ creds.refresh_token)

\* valid loaded credentials pass on with token.json untouched; absent or
\* invalid ones go to refresh when loaded, expired and refreshable, and to
\* consent otherwise; a changed credential is saved next, saving overwrites
\* token.json, and nothing else writes it during the step; the step is
\* left, for the provider calls, only with valid credentials
C5_CredentialStep ==
    /\ (pc = "check" /\ creds.loaded /\ creds.valid) =>
          pc' = "build" /\ tokenFile' = tokenFile /\ creds' = creds
    /\ (pc = "check" /\ ~(creds.loaded /\ creds.valid)) =>
          /\ pc' = IF creds.loaded /\ creds.expired /\ creds.refresh_token
                   THEN "refresh" ELSE "consent"
          /\ tokenFile' = tokenFile
    /\ (pc \in {"refresh", "consent"} /\ creds' # creds) => pc' = "save"
    /\ pc = "save" => tokenFile' = "new" /\ pc' = "build"
    /\ (pc \in CredentialPcs /\ tokenFile' # tokenFile) => pc = "save"
    /\ (pc \in CredentialPcs /\ pc' \notin CredentialPcs) =>
          pc' = "build" /\ creds'.loaded /\ creds'.valid

\* C5: in the credential step token.json is overwritten after every
\* credential change and not written when the loaded credential is valid;
\* refresh is chosen only for a loaded, expired credential with a refresh
\* token and consent in every other absent-or-invalid case; no provider call
\* is sent before the step has completed
C5_Credentials == [](C5_CredentialState) /\ [][C5_CredentialStep]_vars

\* the credential step completed after a credential change was saved
C5_Witness ==
    /\ pc = "build"
    /\ tokenFile = "new"
    /\ calls = <<>>

\* the calls that raised HttpError
FailedCalls == {i \in 1..Len(calls) : calls[i].raised = "HttpError"}

\* a call that raised HttpError is the last request sent, the run is in the
\* handler or has ended there, and the delete script has not removed
\* token.json
C6_ErrorState ==
    /\ \A i \in FailedCalls :
          /\ i = Len(calls)
          /\ pc \in {"except", "failed"}
          /\ script = "delete" => tokenFile # "absent"
    /\ pc \in {"except", "failed"} => FailedCalls # {}

\* from the handler the only step prints the error and ends the run: no
\* request is sent, token.json is left alone, and the ended run does nothing
C6_ErrorStep ==
    pc \in {"except", "failed"} =>
        /\ pc = "except"
        /\ pc' = "failed"
        /\ calls' = calls
        /\ tokenFile' = tokenFile

\* C6: once a provider call fails with an HTTP error the error is printed
\* and the run ends: no further provider call is sent, nothing is retried,
\* no filter is created after the error and the delete script leaves
\* token.json in place
C6_HttpErrorEndsRun == [](C6_ErrorState) /\ [][C6_ErrorStep]_vars

\* the delete script ended on an HTTP error of its second fetch pass, after
\* a sender was marked, with token.json still there
C6_Witness ==
    /\ script = "delete"
    /\ pc = "failed"
    /\ senders # <<>>
    /\ Len(calls) > 1 + Len(messages.list)
    /\ tokenFile # "absent"

\* C7: an absent or empty message list is tolerated by everything after the
\* list call: no run on an empty mailbox dies of an uncaught exception
C7_EmptyMailboxTolerated ==
    mailbox = <<>> => pc \notin {"TypeError", "IndexError", "KeyError"}

\* the list requests sent
ListCalls == {i \in 1..Len(calls) : calls[i].request.api = "messages.list"}

\* C8: the filter script asks for at most 250 identifiers per list call and,
\* when its loop has ended, has fetched every page of the mailbox (one list
\* call per page, following the continuation tokens); the delete script sends
\* exactly one list call, with no continuation
C8_Pagination ==
    /\ \A i \in ListCalls : calls[i].request.maxResults <= MaxResults
    /\ (script = "filter" /\ pc \in {"create", "done"}) =>
          Cardinality(ListCalls) = Len(mailbox)
    /\ (script = "delete" /\ pc \notin CredentialPcs \cup {"build"}) =>
          /\ Cardinality(ListCalls) = 1
          /\ \A i \in ListCalls : calls[i].request.pageToken = ""

\* the filters.create requests sent
CreateCalls == {i \in 1..Len(calls) : calls[i].request.api = "filters.create"}

\* whether some existing filter has a `from` criterion that contains email
CoveredByFilter(email) ==
    \E k \in 1..Len(filters.filter) :
        /\ filters.filter[k].criteria.has_from
        /\ IsSubstring(email, filters.filter[k].criteria.from)

\* the addresses of emails that no existing filter covers, joined with " OR "
UnfilteredJoined == Join(OrSep, SelectSeq(emails, LAMBDA e : ~CoveredByFilter(e)))

\* C9: a run of the filter script that ends without a provider error has
\* sent exactly one filters.create request; a create request is the last
\* request of its run, sent after the marking of the last pass returned and
\* the loop ended on a reference without a token; its `from` criterion is the
\* " OR "-joined unfiltered addresses of the last pass, and its action adds
\* TRASH and removes INBOX
C9_OneFilterCreated ==
    /\ (script = "filter" /\ pc = "done") =>
          Cardinality(CreateCalls) = 1 /\ FailedCalls = {}
    /\ \A i \in CreateCalls :
          /\ i = Len(calls)
          /\ pc \in {"done", "except", "failed"}
          /\ senders = marked_senders
          /\ emails = extract_emails(senders)
          /\ messages.list[Len(messages.list)].nextPageToken = ""
          /\ calls[i].request.body.criteria.from = unfiltered_emails
          /\ unfiltered_emails = UnfilteredJoined
          /\ calls[i].request.body.action =
                [addLabelIds |-> <<"TRASH">>, removeLabelIds |-> <<"INBOX">>]

\* the filter script ended after creating a filter although the one address
\* marked was covered by an existing filter: the criterion is empty
C9_Witness ==
    /\ script = "filter"
    /\ pc = "done"
    /\ emails = <<<<"a">>>>
    /\ filters.has_filter
    /\ calls[Len(calls)].request.body.criteria.from = <<>>

\* the positions of the messages listed that have a `From` header whose
\* value is a marked sender
FromMarked ==
    {i \in 1..Len(messages.list) :
        \E h \in Range(Message(messages.list[i].id)) :
            h.name = "From" /\ h.value \in Range(senders)}

\* the ids of those messages, in the order listed
MarkedIds ==
    [k \in 1..Len(Pick(messages.list, FromMarked)) |-> Pick(messages.list, FromMarked)[k].id]

\* C10: the delete script never sends a request other than list and get;
\* token.json is gone after the credential step only when the run has ended
\* after a list call, a first fetch pass, the marking and a second fetch
\* pass that all returned; the ids collected are those of the messages whose
\* `From` value is a marked sender, and nothing is done with them
C10_NoDeleteRequest ==
    script = "delete" =>
        /\ \A i \in 1..Len(calls) : calls[i].request.api \in {"messages.list", "messages.get"}
        /\ (pc \notin CredentialPcs /\ tokenFile = "absent") => pc = "done"
        /\ pc = "done" =>
              /\ tokenFile = "absent"
              /\ FailedCalls = {}
              /\ senders = marked_senders
              /\ msg_ids = MarkedIds
              /\ Len(calls) = 1 + 2 * Len(messages.list)
              /\ \A j \in 1..Len(messages.list) :
                    /\ calls[1 + j].request.id = messages.list[j].id
                    /\ calls[1 + Len(messages.list) + j].request.id = messages.list[j].id

\* the delete script ended with the ids of two messages collected, and
\* token.json removed
C10_Witness ==
    /\ script = "delete"
    /\ pc = "done"
    /\ Len(msg_ids) = 2
    /\ tokenFile = "absent"

\* C2: identify_unfiltered_emails returns the candidates that are a
\* substring of no existing filter's `from` criterion, in candidate order and
\* joined with " OR "; all of them when no filter exists
C2_Unfiltered ==
    (pc # "identify" /\ FailedCalls = {}) =>
        /\ pc = "page_token"
        /\ unfiltered_emails = UnfilteredJoined

\* the statement of C2 for the responses in which every filter has a `from`
\* criterion
C2_UnfilteredWhenEveryFilterHasFrom ==
    (/\ pc # "identify"
     /\ FailedCalls = {}
     /\ \A k \in 1..Len(filters.filter) : filters.filter[k].criteria.has_from) =>
        /\ pc = "page_token"
        /\ unfiltered_emails = UnfilteredJoined

====
